---- MODULE Spec2Model ----
(***************************************************************************)
(* stapiret: the concurrent StackRox inventory collector (stapiret.py) and *)
(* the merge of its output files into one tree (create_master_data.py).    *)
(*                                                                         *)
(* The collector runs on one asyncio event loop: code between two awaits   *)
(* is atomic, so every action below is one resumption of one coroutine,    *)
(* from the await that woke it up to the next await it blocks on.          *)
(***************************************************************************)
EXTENDS Integers, Sequences, FiniteSets, TLC

VARIABLES
    config,          \* which of BASE_URL, API_TOKEN are set          (stapiret.py 18-19)
    total,           \* the server's collections: endpoint -> number of items
    server,          \* how the server shapes a page of a collection
    mainpc,          \* where main() stands
    pc,              \* caller -> where its make_request call stands
    attempt,         \* caller -> loop variable of `for attempt in range(MAX_RETRIES)`
    sem,             \* asyncio.Semaphore._value: the free slots
    offset,          \* paginated caller -> local `offset` of get_paginated_data
    all_data,        \* paginated caller -> local `all_data` of get_paginated_data
    ret,             \* caller -> what its coroutine returned (or raised)
    calls,           \* caller -> the make_request calls it made, by offset / cluster id
    outcomes,        \* caller -> outcome of each HTTP attempt of its latest call
    returned,        \* caller -> what its latest make_request call returned
    delays,          \* caller -> the asyncio.sleep arguments of its latest call
    nodes,           \* main's dict `nodes`: cluster id -> get_nodes result
    search_results,  \* main's dict `search_results`: image name -> search result
    files,           \* the files written so far
    errors,          \* number of logger.error lines of main (configuration error)
    clusters_data,   \* create_master_data.py 15: content of clusters.json
    nodes_data,      \* create_master_data.py 16: content of nodes.json
    namespaces_data, \* create_master_data.py 17: content of namespaces.json
    deployments_data,\* create_master_data.py 18: content of deployments.json
    pods_data,       \* create_master_data.py 19: content of pods.json
    master_data,     \* what combine_kubernetes_data returned
    stats,           \* the statistics of create_master_data.py 113-125
    mpc              \* where the merge script stands

collectorVars == <<config, total, server, mainpc, pc, attempt, sem, offset, all_data, ret,
                   calls, outcomes, returned, delays, nodes, search_results, files,
                   errors>>

mergeVars == <<clusters_data, nodes_data, namespaces_data, deployments_data,
               pods_data, master_data, stats, mpc>>

vars == <<collectorVars, mergeVars>>

-----------------------------------------------------------------------------
(* Program constants and model bounds *)

\* stapiret.py 23: the capacity of the one semaphore main() creates. The
\* program's value is 100; the model runs it with a small capacity so that
\* the five first-wave fetches queue up behind it.
MAX_CONCURRENT_REQUESTS == 2

MAX_RETRIES == 3

RETRY_DELAY == 1

\* stapiret.py 58: local `limit` of get_paginated_data
limit == 1000

\* Largest cluster collection and image collection the server holds in Spec.
MaxClusters == 2

MaxImages == 1

\* SpecPaginate: the server's collection has up to MaxFullPages full pages,
\* followed by a last page of 0 or LastPage items.
MaxFullPages == 2

LastPage == 437

\* SpecMerge: the longest pods.json.
MaxPods == 2

\* SpecServer: the page size of a server that ignores pagination.limit.
OverPage == 1500

-----------------------------------------------------------------------------
(* Python values.  A value is a record [tag, items]: None, a JSON object     *)
(* whose collection key holds `items`, a list, a raised exception, or        *)
(* "pending" for a coroutine that has not returned.                          *)

PyNone == [tag |-> "None", items |-> <<>>]

Json(items) == [tag |-> "json", items |-> items]

\* A JSON object whose collection key holds one object, not a list of them.
JsonObject(item) == [tag |-> "json_object", items |-> item]

List(items) == [tag |-> "list", items |-> items]

Raised(exc) == [tag |-> exc, items |-> <<>>]

Pending == [tag |-> "pending", items |-> <<>>]

ExceptionTags == {"TypeError", "AttributeError", "ClientResponseError",
                  "ClientConnectorError", "JSONDecodeError", "TimeoutError"}

IsRaised(v) == v.tag \in ExceptionTags

EmptyDict == [k \in {} |-> PyNone]

Min(a, b) == IF a < b THEN a ELSE b

-----------------------------------------------------------------------------
(* Callers of make_request *)

TopLevel == {"clusters", "namespaces", "deployments", "pods", "images"}

Paginated == {"clusters", "deployments", "pods", "images"}

Caller(kind, i) == [kind |-> kind, i |-> i]

\* The five coroutines main() gathers first (stapiret.py 157-165).
TopCallers == {Caller(k, 0) : k \in TopLevel}

PaginatedCallers == {Caller(k, 0) : k \in Paginated}

\* main() itself awaits get_nodes inside its for loop (stapiret.py 169-171).
NodesCaller == Caller("nodes", 0)

\* One search_by_image coroutine per image (stapiret.py 142).
SearchCallers == {Caller("search", i) : i \in 1..MaxImages}

Callers == TopCallers \cup {NodesCaller} \cup SearchCallers

\* stapiret.py 33
NAMESPACES_TIMEOUT == 300

-----------------------------------------------------------------------------
(* The REST API behind session.get (stapiret.py 41): a collection of        *)
(* total[k] items, item i being the integer i; a page request returns the   *)
(* slice the pagination parameters ask for.                                 *)

Collection(k) == [i \in 1..total[k] |-> i]

\* A server that puts in a page as many items as pagination.limit asks for,
\* and always sends the collection as a list.
Conforming == [page_size |-> 0, bare_object |-> FALSE]

\* The number of items the server puts in a full page: what the request asks
\* for, or the server's own page size when it has one.
PageLength(lim) == IF server.page_size = 0 THEN lim ELSE server.page_size

ServerPage(k, off, lim) ==
    SubSeq(Collection(k), off + 1, Min(off + PageLength(lim), total[k]))

\* The body of a 2xx response to the page request of caller c: the page under
\* the collection key, as a list or, from a server that sends one item bare,
\* as that object.
PageBody(c) ==
    LET page == ServerPage(c.kind, offset[c], limit)
    IN  IF server.bare_object /\ Len(page) = 1 THEN JsonObject(page[1]) ELSE Json(page)

\* The body of a 2xx response to the request caller c has in flight.
Payload(c) ==
    IF c \in PaginatedCallers
    THEN PageBody(c)
    ELSE IF c.kind = "namespaces"
    THEN Json(Collection("namespaces"))
    ELSE IF c.kind = "nodes"
    THEN Json(<<calls[c][Len(calls[c])].cluster_id>>)
    ELSE Json(<<calls[c][Len(calls[c])].query>>)

\* What one HTTP attempt can end in: a 2xx JSON response, or one of the
\* exceptions of the attempt (non-2xx status: raise_for_status, line 42;
\* connection failure and timeout: session.get, line 41; non-JSON body:
\* response.json(), line 44).
FailureKinds == {"ClientResponseError", "ClientConnectorError",
                 "JSONDecodeError", "TimeoutError"}

AttemptOutcomes == {"ok"} \cup FailureKinds

-----------------------------------------------------------------------------
(* make_request (stapiret.py 35-53) *)

\* The except clause of line 46 without asyncio.TimeoutError.
Caught_NoTimeout == {"ClientResponseError", "ClientConnectorError", "JSONDecodeError"}

\* line 46: the exception classes the retry loop catches
Caught == {"ClientResponseError", "ClientConnectorError",
           "JSONDecodeError", "TimeoutError"}

\* lines 41-46: what the end of an attempt is to the retry loop: a response
\* to return, an exception the except clause catches, or an exception that
\* passes through it
Disposition(out) ==
    IF out = "ok" THEN "ok" ELSE IF out \in Caught THEN "caught" ELSE out

\* Line 48 giving up one attempt early.
LastAttempt_OneEarly(a) == a = MAX_RETRIES - 2

\* line 48
LastAttempt(a) == a = MAX_RETRIES - 1

\* Line 51 without the exponent.
RetryTime_NoBackoff(a) == RETRY_DELAY

\* line 51
RetryTime(a) == RETRY_DELAY * (2 ^ a)

\* A semaphore that never blocks.
CanAcquire_Always(s) == TRUE

\* line 36: Semaphore.acquire returns only while a slot is free
CanAcquire(s) == s > 0

\* A sleep that gives the slot back while it lasts.
SlotsWhileSleeping_Released(s) == s + 1

\* lines 36 and 53: the sleep is inside `async with semaphore`, so the free
\* slots stay as they are while the call sleeps
SlotsWhileSleeping(s) == s

\* Slots held: callers inside `async with semaphore`.
Holding == {c \in Callers : pc[c] \in {"request", "sleep"}}

\* line 36 then 37-41: the caller gets a slot and issues its first attempt.
Acquire(c) ==
    /\ pc[c] = "acquire"
    /\ CanAcquire(sem)
    /\ sem' = sem - 1
    /\ pc' = [pc EXCEPT ![c] = "request"]
    /\ attempt' = [attempt EXCEPT ![c] = 0]
    /\ outcomes' = [outcomes EXCEPT ![c] = <<>>]
    /\ returned' = [returned EXCEPT ![c] = Pending]
    /\ delays' = [delays EXCEPT ![c] = <<>>]
    /\ UNCHANGED <<config, total, server, mainpc, offset, all_data, ret, calls, nodes,
                   search_results, files, errors>>
    /\ UNCHANGED mergeVars

-----------------------------------------------------------------------------
(* The callers of make_request: what each does with the value v that its    *)
(* `await make_request(...)` evaluates to, up to its next await.  A value   *)
(* with an exception tag is an exception raised out of make_request; no     *)
(* caller has a try block, so it leaves the caller's coroutine too.         *)

\* stapiret.py 61: the parameters of a page request
PageParams(off) == [limit |-> limit, offset |-> off]

\* Line 81 with <= for <.
PageIsShort_OrEqual(items) == Len(items) <= limit

\* line 81
PageIsShort(items) == Len(items) < limit

\* Lines 75-76 left out: list.extend of a dict adds the keys of the dict.
ExtractItems_NoCoercion(v) ==
    IF v.tag = "json_object" THEN <<"id", "name">> ELSE v.items

\* lines 73-76: the value at the collection key, a single object made a list
ExtractItems(v) == IF v.tag = "json_object" THEN <<v.items>> ELSE v.items

\* A failed page that discards the pages before it.
OnFailure_Discard(all) == <<>>

\* lines 66-67 and 86: what get_paginated_data returns when the page failed
OnFailure(all) == all

\* get_paginated_data, lines 66-86, and the return of get_clusters & co.
PaginateStep(c, v) ==
    /\ IF IsRaised(v)
       THEN /\ ret' = [ret EXCEPT ![c] = v]
            /\ pc' = [pc EXCEPT ![c] = "done"]
            /\ UNCHANGED <<offset, all_data, calls>>
       ELSE IF v.tag = "None"
       THEN /\ ret' = [ret EXCEPT ![c] = List(OnFailure(all_data[c]))]
            /\ pc' = [pc EXCEPT ![c] = "done"]
            /\ UNCHANGED <<offset, all_data, calls>>
       ELSE /\ all_data' = [all_data EXCEPT ![c] = @ \o ExtractItems(v)]
            /\ IF PageIsShort(ExtractItems(v))
               THEN /\ ret' = [ret EXCEPT ![c] = List(all_data'[c])]
                    /\ pc' = [pc EXCEPT ![c] = "done"]
                    /\ UNCHANGED <<offset, calls>>
               ELSE /\ offset' = [offset EXCEPT ![c] = @ + limit]
                    /\ calls' = [calls EXCEPT ![c] = Append(@, PageParams(offset'[c]))]
                    /\ pc' = [pc EXCEPT ![c] = "acquire"]
                    /\ UNCHANGED ret
    /\ UNCHANGED <<mainpc, nodes>>

\* get_namespaces, lines 112-116: on None the condition of line 113 is false
\* and len(namespaces) of line 115 raises TypeError.
NamespacesStep(c, v) ==
    /\ ret' = [ret EXCEPT ![c] =
                  IF IsRaised(v) THEN v
                  ELSE IF v.tag = "None" THEN Raised("TypeError")
                  ELSE List(v.items)]
    /\ pc' = [pc EXCEPT ![c] = "done"]
    /\ UNCHANGED <<mainpc, nodes, offset, all_data, calls>>

\* main's locals after the gather of lines 163-165
clusters == ret[Caller("clusters", 0)].items

images == ret[Caller("images", 0)].items

\* concurrent_image_search, lines 142-143: one search_by_image per image,
\* each calling make_request (line 138).
LaunchSearches(pcf) ==
    [c \in Callers |->
        IF c.kind = "search" /\ c.i <= Len(images) THEN "acquire" ELSE pcf[c]]

SearchCalls(cf) ==
    [c \in Callers |->
        IF c.kind = "search" /\ c.i <= Len(images)
        THEN <<[query |-> images[c.i]]>> ELSE cf[c]]

\* main's for loop, lines 169-171, resumed with the result of get_nodes; after
\* the last cluster main goes on to line 176.
NodesStep(c, v) ==
    LET idx == Len(calls[c])
    IN  /\ IF IsRaised(v)
           THEN /\ ret' = [ret EXCEPT ![c] = v]
                /\ pc' = [pc EXCEPT ![c] = "done"]
                /\ mainpc' = "crashed"
                /\ UNCHANGED <<nodes, calls>>
           ELSE /\ nodes' = (clusters[idx] :> v) @@ nodes
                /\ UNCHANGED ret
                /\ IF idx < Len(clusters)
                   THEN /\ calls' = [calls EXCEPT
                                        ![c] = Append(@, [cluster_id |-> clusters[idx + 1]])]
                        /\ pc' = [pc EXCEPT ![c] = "acquire"]
                        /\ UNCHANGED mainpc
                   ELSE /\ calls' = SearchCalls(calls)
                        /\ pc' = LaunchSearches([pc EXCEPT ![c] = "done"])
                        /\ mainpc' = "searches"
        /\ UNCHANGED <<offset, all_data>>

\* search_by_image, lines 138-139
SearchStep(c, v) ==
    /\ ret' = [ret EXCEPT ![c] = v]
    /\ pc' = [pc EXCEPT ![c] = "done"]
    /\ UNCHANGED <<mainpc, nodes, offset, all_data, calls>>

Resume(c, v) ==
    /\ returned' = [returned EXCEPT ![c] = v]
    /\ IF c \in PaginatedCallers THEN PaginateStep(c, v)
       ELSE IF c.kind = "namespaces" THEN NamespacesStep(c, v)
       ELSE IF c.kind = "nodes" THEN NodesStep(c, v)
       ELSE SearchStep(c, v)

-----------------------------------------------------------------------------
(* make_request, continued: the end of an attempt *)

\* lines 41-53: the attempt in flight ends.  A 2xx JSON body is returned
\* (line 45); a caught exception is retried after a sleep (lines 51-53) or,
\* on the last attempt, turned into None (line 50); any other exception
\* leaves make_request.  Leaving `async with` releases the slot.
Respond(c) ==
    /\ pc[c] = "request"
    /\ \E out \in {Disposition(o) : o \in AttemptOutcomes} :
          /\ outcomes' = [outcomes EXCEPT
                             ![c] = Append(@, IF out = "ok" THEN "ok" ELSE "fail")]
          /\ IF out = "caught" /\ ~LastAttempt(attempt[c])
             THEN /\ pc' = [pc EXCEPT ![c] = "sleep"]
                  /\ delays' = [delays EXCEPT ![c] = Append(@, RetryTime(attempt[c]))]
                  /\ sem' = SlotsWhileSleeping(sem)
                  /\ UNCHANGED <<mainpc, offset, all_data, ret, calls, nodes, returned>>
             ELSE /\ sem' = sem + 1
                  /\ Resume(c, IF out = "ok" THEN Payload(c)
                               ELSE IF out = "caught" THEN PyNone
                               ELSE Raised(out))
                  /\ UNCHANGED delays
    /\ UNCHANGED <<config, total, server, attempt, search_results, files, errors>>
    /\ UNCHANGED mergeVars

\* line 53 returns: the for loop of line 37 issues the next attempt, or, when
\* range(MAX_RETRIES) is used up, ends and make_request returns None.
Wake(c) ==
    /\ pc[c] = "sleep"
    /\ attempt' = [attempt EXCEPT ![c] = @ + 1]
    /\ IF attempt[c] + 1 < MAX_RETRIES
       THEN /\ pc' = [pc EXCEPT ![c] = "request"]
            /\ UNCHANGED <<sem, mainpc, offset, all_data, ret, calls, nodes, returned>>
       ELSE /\ sem' = sem + 1
            /\ Resume(c, PyNone)
    /\ UNCHANGED <<config, total, server, outcomes, delays, search_results, files, errors>>
    /\ UNCHANGED mergeVars

-----------------------------------------------------------------------------
(* main (stapiret.py 146-210) *)

AllFiles == {"clusters.json", "namespaces.json", "deployments.json", "pods.json",
             "images.json", "nodes.json", "search_results.json"}

\* Line 147 testing the base URL alone.
ConfigComplete_BaseUrlOnly(cfg) == cfg.base_url

\* line 147: all([BASE_URL, API_TOKEN])
ConfigComplete(cfg) == cfg.base_url /\ cfg.api_token

\* lines 147-149
MainConfigError ==
    /\ mainpc = "start"
    /\ ~ConfigComplete(config)
    /\ errors' = errors + 1
    /\ mainpc' = "done"
    /\ UNCHANGED <<config, total, server, pc, attempt, sem, offset, all_data, ret, calls,
                   outcomes, returned, delays, nodes, search_results, files>>
    /\ UNCHANGED mergeVars

\* lines 153-165: the five coroutines are handed to asyncio.gather; each
\* stands at its first make_request call.
MainGatherStart ==
    /\ mainpc = "start"
    /\ ConfigComplete(config)
    /\ mainpc' = "gather"
    /\ pc' = [c \in Callers |-> IF c \in TopCallers THEN "acquire" ELSE pc[c]]
    /\ calls' = [c \in Callers |->
                    IF c \in PaginatedCallers THEN <<PageParams(0)>>
                    ELSE IF c \in TopCallers THEN <<[timeout |-> NAMESPACES_TIMEOUT]>>
                    ELSE calls[c]]
    /\ UNCHANGED <<config, total, server, attempt, sem, offset, all_data, ret, outcomes,
                   returned, delays, nodes, search_results, files, errors>>
    /\ UNCHANGED mergeVars

\* A gather that waits for get_clusters alone.
BarrierPassed_ClustersOnly == pc[Caller("clusters", 0)] = "done"

\* line 163: what `await asyncio.gather(...)` waits for before it returns
BarrierPassed == \A c \in TopCallers : pc[c] = "done"

\* lines 163-171: the gather returns the five results; main starts its for
\* loop with the first get_nodes call, or with no cluster goes on to line 176.
MainGatherDone ==
    /\ mainpc = "gather"
    /\ BarrierPassed
    /\ \A c \in TopCallers : ~IsRaised(ret[c])
    /\ IF Len(clusters) > 0
       THEN /\ calls' = [calls EXCEPT ![NodesCaller] = <<[cluster_id |-> clusters[1]]>>]
            /\ pc' = [pc EXCEPT ![NodesCaller] = "acquire"]
            /\ mainpc' = "nodes"
       ELSE /\ calls' = SearchCalls(calls)
            /\ pc' = LaunchSearches(pc)
            /\ mainpc' = "searches"
    /\ UNCHANGED <<config, total, server, attempt, sem, offset, all_data, ret, outcomes,
                   returned, delays, nodes, search_results, files, errors>>
    /\ UNCHANGED mergeVars

\* line 163: gather (return_exceptions not set) raises the first exception of
\* a child into main, which has no handler: main ends, the session closes and
\* asyncio.run cancels the coroutines still running, which gives up their slots.
MainGatherRaise ==
    /\ mainpc = "gather"
    /\ \E c \in TopCallers : IsRaised(ret[c])
    /\ mainpc' = "crashed"
    /\ pc' = [c \in Callers |->
                 IF pc[c] \in {"acquire", "request", "sleep"} THEN "cancelled" ELSE pc[c]]
    /\ sem' = sem + Cardinality(Holding)
    /\ UNCHANGED <<config, total, server, attempt, offset, all_data, ret, calls, outcomes,
                   returned, delays, nodes, search_results, files, errors>>
    /\ UNCHANGED mergeVars

\* line 144: dict(search_results)
SearchDict ==
    [name \in {images[i] : i \in 1..Len(images)} |->
        ret[Caller("search", CHOOSE i \in 1..Len(images) :
                                /\ images[i] = name
                                /\ \A j \in 1..Len(images) : images[j] = name => j <= i)]]

\* lines 176-210: the gather of the searches returns, the seven files are
\* written, and the summary is logged; line 205 calls n.get on every value of
\* `nodes` and raises AttributeError on a None.
MainSave ==
    /\ mainpc = "searches"
    /\ \A c \in SearchCallers : pc[c] \in {"idle", "done"}
    /\ IF \E c \in SearchCallers : IsRaised(ret[c])
       THEN /\ mainpc' = "crashed"
            /\ UNCHANGED <<search_results, files>>
       ELSE /\ search_results' = SearchDict
            /\ files' = AllFiles
            /\ mainpc' = IF \E k \in DOMAIN nodes : nodes[k].tag = "None"
                         THEN "crashed" ELSE "done"
    /\ UNCHANGED <<config, total, server, pc, attempt, sem, offset, all_data, ret, calls,
                   outcomes, returned, delays, nodes, errors>>
    /\ UNCHANGED mergeVars

-----------------------------------------------------------------------------
(* combine_kubernetes_data (create_master_data.py 13-99).  A dict is a      *)
(* function on the set of its keys; a defaultdict creates the entry of a    *)
(* missing key on the first subscript.                                      *)

\* JSON null, and the None of dict.get on a missing key
Null == "null"

Get(d, k, default) == IF k \in DOMAIN d THEN d[k] ELSE default

Put(d, k, v) == (k :> v) @@ d

\* lines 22-26: the default factories of the three nested defaultdicts
NewDeployment == [info |-> EmptyDict, pods |-> <<>>]

NewNamespace ==
    [deployments |-> EmptyDict, meta |-> EmptyDict,
     has_standalone_pods |-> FALSE, standalone_pods |-> <<>>]

NewCluster == [info |-> EmptyDict, nodes |-> <<>>, namespaces |-> EmptyDict]

\* A namespace entry made anew on every reference, not only when missing.
NamespaceOf_Fresh(md, cid, ns) == NewNamespace

\* master_data[cluster_id]['namespaces'][namespace]
NamespaceOf(md, cid, ns) == Get(Get(md, cid, NewCluster).namespaces, ns, NewNamespace)

PutNamespace(md, cid, ns, entry) ==
    LET c == Get(md, cid, NewCluster)
    IN  Put(md, cid, [c EXCEPT !.namespaces = Put(@, ns, entry)])

\* lines 30-35: one pass of the loop over the cluster records
ProcessCluster(md, cluster) ==
    LET c == Get(md, cluster.id, NewCluster)
    IN  Put(md, cluster.id,
            [c EXCEPT !.info = [name |-> cluster.name, type |-> cluster.type,
                                labels |-> cluster.labels]])

RECURSIVE ProcessClusters(_, _)
\* lines 29-35
ProcessClusters(md, cs) ==
    IF cs = <<>> THEN md ELSE ProcessClusters(ProcessCluster(md, Head(cs)), Tail(cs))

\* lines 39-45, for one item of nodes_data: the cluster entry is subscripted
\* once per node.
ProcessClusterNodes(md, cid, cluster_nodes) ==
    IF cluster_nodes.items = <<>> THEN md
    ELSE LET c == Get(md, cid, NewCluster)
         IN  Put(md, cid,
                 [c EXCEPT !.nodes = @ \o
                     [i \in 1..Len(cluster_nodes.items) |->
                         [id |-> cluster_nodes.items[i].id,
                          name |-> cluster_nodes.items[i].name,
                          labels |-> EmptyDict, taints |-> <<>>]]])

RECURSIVE ProcessNodes(_, _, _)
\* lines 38-45, over the items of nodes_data left in `keys`
ProcessNodes(md, nd, keys) ==
    IF keys = {} THEN md
    ELSE LET k == CHOOSE x \in keys : TRUE
         IN  ProcessNodes(ProcessClusterNodes(md, k, nd[k]), nd, keys \ {k})

\* lines 49-56: one pass of the loop over the namespace records
ProcessNamespace(md, namespace) ==
    LET m == namespace.metadata
        n == NamespaceOf(md, m.clusterId, m.name)
    IN  PutNamespace(md, m.clusterId, m.name,
            [n EXCEPT !.meta = [id |-> m.id, labels |-> m.labels,
                                annotations |-> m.annotations]])

RECURSIVE ProcessNamespaces(_, _)
\* lines 48-56
ProcessNamespaces(md, nss) ==
    IF nss = <<>> THEN md
    ELSE ProcessNamespaces(ProcessNamespace(md, Head(nss)), Tail(nss))

\* lines 60-66: one pass of the loop over the deployment records
ProcessDeployment(md, deployment) ==
    LET n == NamespaceOf(md, deployment.clusterId, deployment.namespace)
        d == Get(n.deployments, deployment.id, NewDeployment)
    IN  PutNamespace(md, deployment.clusterId, deployment.namespace,
            [n EXCEPT !.deployments =
                Put(@, deployment.id,
                    [d EXCEPT !.info = [name |-> deployment.name,
                                        created |-> deployment.created]])])

RECURSIVE ProcessDeployments(_, _)
\* lines 59-66
ProcessDeployments(md, ds) ==
    IF ds = <<>> THEN md
    ELSE ProcessDeployments(ProcessDeployment(md, Head(ds)), Tail(ds))

\* Line 84 keeping the node of the first instance.
ProcessInstance_FirstNode(pod_info, instance) ==
    [pod_info EXCEPT
        !.node = IF @ = Null THEN instance.instanceId.node ELSE @,
        !.containers = Append(@, [name |-> instance.containerName,
                                  id |-> instance.instanceId.id,
                                  runtime |-> instance.instanceId.containerRuntime])]

\* lines 83-89: one pass of the loop over liveInstances
ProcessInstance(pod_info, instance) ==
    [pod_info EXCEPT
        !.node = instance.instanceId.node,
        !.containers = Append(@, [name |-> instance.containerName,
                                  id |-> instance.instanceId.id,
                                  runtime |-> instance.instanceId.containerRuntime])]

RECURSIVE ProcessInstances(_, _)
\* lines 82-89
ProcessInstances(pod_info, instances) ==
    IF instances = <<>> THEN pod_info
    ELSE ProcessInstances(ProcessInstance(pod_info, Head(instances)), Tail(instances))

\* lines 74-89
PodInfo(pod) ==
    ProcessInstances([id |-> pod.id, name |-> pod.name, node |-> Null,
                      containers |-> <<>>],
                     pod.liveInstances)

\* Line 91 testing that the deployment is already in the tree.
HasDeployment_KnownOnly(md, pod) ==
    /\ pod.deploymentId \notin {Null, ""}
    /\ pod.deploymentId \in DOMAIN NamespaceOf(md, pod.clusterId, pod.namespace).deployments

\* line 91: `if deployment_id:` is false for None and for the empty string
HasDeployment(md, pod) == pod.deploymentId \notin {Null, ""}

\* Lines 95-96 without the `not in` test: the list is emptied every time.
StandalonePods_Reset(n) == <<>>

\* lines 95-96: the standalone_pods list of the namespace, created when missing
StandalonePods(n) == IF n.has_standalone_pods THEN n.standalone_pods ELSE <<>>

\* lines 70-97: one pass of the loop over the pod records
ProcessPod(md, pod) ==
    LET n == NamespaceOf(md, pod.clusterId, pod.namespace)
    IN  IF HasDeployment(md, pod)
        THEN LET d == Get(n.deployments, pod.deploymentId, NewDeployment)
             IN  PutNamespace(md, pod.clusterId, pod.namespace,
                     [n EXCEPT !.deployments =
                         Put(@, pod.deploymentId,
                             [d EXCEPT !.pods = Append(@, PodInfo(pod))])])
        ELSE PutNamespace(md, pod.clusterId, pod.namespace,
                 [n EXCEPT !.has_standalone_pods = TRUE,
                           !.standalone_pods = Append(StandalonePods(n), PodInfo(pod))])

RECURSIVE ProcessPods(_, _)
\* lines 69-97
ProcessPods(md, ps) ==
    IF ps = <<>> THEN md ELSE ProcessPods(ProcessPod(md, Head(ps)), Tail(ps))

\* line 39: cluster_nodes.get raises AttributeError when the value is null
NodesRaise(nd) == \E k \in DOMAIN nd : nd[k].tag = "None"

\* lines 28-99, on the five loaded documents
Combine(cs, nd, nss, ds, ps) ==
    LET m1 == ProcessClusters(EmptyDict, cs)
        m2 == ProcessNodes(m1, nd, DOMAIN nd)
        m3 == ProcessNamespaces(m2, nss)
        m4 == ProcessDeployments(m3, ds)
    IN  ProcessPods(m4, ps)

RECURSIVE DeploymentPods(_, _)
\* line 121: sum(len(deployment['pods']) for deployment in ns['deployments'].values())
DeploymentPods(deployments, keys) ==
    IF keys = {} THEN 0
    ELSE LET d == CHOOSE x \in keys : TRUE
         IN  Len(deployments[d].pods) + DeploymentPods(deployments, keys \ {d})

\* lines 121-122: the term of the sum for one namespace
NamespacePods(ns) ==
    DeploymentPods(ns.deployments, DOMAIN ns.deployments)
      + (IF ns.has_standalone_pods THEN Len(ns.standalone_pods) ELSE 0)

RECURSIVE ClusterPods(_, _)
\* line 124: the namespaces of one cluster
ClusterPods(namespaces, keys) ==
    IF keys = {} THEN 0
    ELSE LET n == CHOOSE x \in keys : TRUE
         IN  NamespacePods(namespaces[n]) + ClusterPods(namespaces, keys \ {n})

RECURSIVE TotalPodsOver(_, _)
\* lines 120-125, over the clusters left in `keys`
TotalPodsOver(md, keys) ==
    IF keys = {} THEN 0
    ELSE LET c == CHOOSE x \in keys : TRUE
         IN  ClusterPods(md[c].namespaces, DOMAIN md[c].namespaces)
               + TotalPodsOver(md, keys \ {c})

\* lines 120-125
TotalPods(md) == TotalPodsOver(md, DOMAIN md)

NoStats == [cluster_count |-> 0, total_pods |-> 0]

\* lines 13-99 called from line 106
CombineKubernetesData ==
    /\ mpc = "loaded"
    /\ IF NodesRaise(nodes_data)
       THEN /\ mpc' = "crashed"
            /\ UNCHANGED master_data
       ELSE /\ mpc' = "combined"
            /\ master_data' = Combine(clusters_data, nodes_data, namespaces_data,
                                      deployments_data, pods_data)
    /\ UNCHANGED <<clusters_data, nodes_data, namespaces_data, deployments_data,
                   pods_data, stats>>
    /\ UNCHANGED collectorVars

\* lines 107-131: the tree is saved and the statistics are printed
PrintStatistics ==
    /\ mpc = "combined"
    /\ stats' = [cluster_count |-> Cardinality(DOMAIN master_data),
                 total_pods |-> TotalPods(master_data)]
    /\ mpc' = "done"
    /\ UNCHANGED <<clusters_data, nodes_data, namespaces_data, deployments_data,
                   pods_data, master_data>>
    /\ UNCHANGED collectorVars

MergeIdle ==
    /\ clusters_data = <<>>
    /\ nodes_data = EmptyDict
    /\ namespaces_data = <<>>
    /\ deployments_data = <<>>
    /\ pods_data = <<>>
    /\ master_data = EmptyDict
    /\ stats = NoStats
    /\ mpc = "idle"

-----------------------------------------------------------------------------
(* The collector run *)

\* The collections the server holds in a collector run.
Datasets ==
    {[k \in TopLevel |-> IF k = "clusters" THEN nc ELSE IF k = "images" THEN ni ELSE 1] :
        nc \in 0..MaxClusters, ni \in 0..MaxImages}

Idle ==
    /\ pc = [c \in Callers |-> "idle"]
    /\ attempt = [c \in Callers |-> 0]
    /\ sem = MAX_CONCURRENT_REQUESTS
    /\ offset = [c \in PaginatedCallers |-> 0]
    /\ all_data = [c \in PaginatedCallers |-> <<>>]
    /\ ret = [c \in Callers |-> Pending]
    /\ calls = [c \in Callers |-> <<>>]
    /\ outcomes = [c \in Callers |-> <<>>]
    /\ returned = [c \in Callers |-> Pending]
    /\ delays = [c \in Callers |-> <<>>]
    /\ nodes = EmptyDict
    /\ search_results = EmptyDict
    /\ files = {}
    /\ errors = 0

Init ==
    /\ config \in [base_url : BOOLEAN, api_token : BOOLEAN]
    /\ total \in Datasets
    /\ server = Conforming
    /\ mainpc = "start"
    /\ Idle
    /\ MergeIdle

Next ==
    \/ MainConfigError
    \/ MainGatherStart
    \/ MainGatherDone
    \/ MainGatherRaise
    \/ MainSave
    \/ \E c \in Callers : Acquire(c)
    \/ \E c \in Callers : Respond(c)
    \/ \E c \in Callers : Wake(c)

Spec == Init /\ [][Next]_vars

-----------------------------------------------------------------------------
(* One get_paginated_data call on its own (stapiret.py 55-86), as any of    *)
(* get_clusters, get_deployments, get_pods, get_images makes it, against a  *)
(* collection of several pages.                                             *)

PageDatasets ==
    {[k \in TopLevel |-> IF k = kind THEN full * limit + last ELSE 0] :
        kind \in Paginated, full \in 0..MaxFullPages, last \in {0, LastPage}}

InitPaginate ==
    /\ config = [base_url |-> TRUE, api_token |-> TRUE]
    /\ server = Conforming
    /\ mainpc = "gather"
    /\ \E c \in PaginatedCallers :
          /\ total \in {t \in PageDatasets : \A k \in TopLevel \ {c.kind} : t[k] = 0}
          /\ pc = [d \in Callers |-> IF d = c THEN "acquire" ELSE "idle"]
          /\ calls = [d \in Callers |-> IF d = c THEN <<PageParams(0)>> ELSE <<>>]
    /\ attempt = [c \in Callers |-> 0]
    /\ sem = MAX_CONCURRENT_REQUESTS
    /\ offset = [c \in PaginatedCallers |-> 0]
    /\ all_data = [c \in PaginatedCallers |-> <<>>]
    /\ ret = [c \in Callers |-> Pending]
    /\ outcomes = [c \in Callers |-> <<>>]
    /\ returned = [c \in Callers |-> Pending]
    /\ delays = [c \in Callers |-> <<>>]
    /\ nodes = EmptyDict
    /\ search_results = EmptyDict
    /\ files = {}
    /\ errors = 0
    /\ MergeIdle

NextPaginate ==
    \/ \E c \in PaginatedCallers : Acquire(c)
    \/ \E c \in PaginatedCallers : Respond(c)
    \/ \E c \in PaginatedCallers : Wake(c)

SpecPaginate == InitPaginate /\ [][NextPaginate]_vars

\* C3: when the server's collection is k full pages and a last page of m <
\* limit items (m may be 0), get_paginated_data returns its k*limit + m items
\* in order, having made k+1 requests with offsets 0, limit, ..., k*limit.
C3_AllPagesInOrder ==
    \A c \in PaginatedCallers :
        (pc[c] = "done" /\ returned[c].tag = "json") =>
            LET k == total[c.kind] \div limit
            IN  /\ ret[c] = List(Collection(c.kind))
                /\ Len(ret[c].items) = total[c.kind]
                /\ calls[c] = [i \in 1..(k + 1) |-> PageParams((i - 1) * limit)]

\* C3 witness: pages of limit, limit and LastPage items have been fetched
\* with three requests.
C3_ThreePages ==
    \E c \in PaginatedCallers :
        /\ pc[c] = "done"
        /\ returned[c].tag = "json"
        /\ Len(ret[c].items) = 2 * limit + LastPage
        /\ Len(calls[c]) = 3

\* C8: when the request for page j ends in a Transport Failure,
\* get_paginated_data has made no request after it and returns, as a list,
\* exactly the items of pages 0..j-1.
C8_FailureKeepsEarlierPages ==
    \A c \in PaginatedCallers :
        (pc[c] = "done" /\ returned[c].tag = "None") =>
            LET j == Len(calls[c]) - 1
            IN  /\ calls[c][j + 1] = PageParams(j * limit)
                /\ ret[c] = List(SubSeq(Collection(c.kind), 1, j * limit))

\* C8 witness: the request for page 2 failed after two full pages.
C8_ThirdPageFailed ==
    \E c \in PaginatedCallers :
        /\ pc[c] = "done"
        /\ returned[c].tag = "None"
        /\ Len(calls[c]) = 3
        /\ Len(ret[c].items) = 2 * limit

-----------------------------------------------------------------------------
(* One get_paginated_data call against servers that shape their pages in    *)
(* their own way: one that sends a one-item collection as the bare object,  *)
(* one that puts OverPage items in a page whatever pagination.limit says.   *)

Servers ==
    {Conforming,
     [page_size |-> 0, bare_object |-> TRUE],
     [page_size |-> OverPage, bare_object |-> FALSE]}

ServerDatasets ==
    {[k \in TopLevel |-> IF k = kind THEN full * limit + last ELSE 0] :
        kind \in Paginated, full \in 0..MaxFullPages, last \in {0, 1, LastPage}}

InitServer ==
    /\ config = [base_url |-> TRUE, api_token |-> TRUE]
    /\ server \in Servers
    /\ mainpc = "gather"
    /\ \E c \in PaginatedCallers :
          /\ total \in {t \in ServerDatasets : \A k \in TopLevel \ {c.kind} : t[k] = 0}
          /\ pc = [d \in Callers |-> IF d = c THEN "acquire" ELSE "idle"]
          /\ calls = [d \in Callers |-> IF d = c THEN <<PageParams(0)>> ELSE <<>>]
    /\ attempt = [c \in Callers |-> 0]
    /\ sem = MAX_CONCURRENT_REQUESTS
    /\ offset = [c \in PaginatedCallers |-> 0]
    /\ all_data = [c \in PaginatedCallers |-> <<>>]
    /\ ret = [c \in Callers |-> Pending]
    /\ outcomes = [c \in Callers |-> <<>>]
    /\ returned = [c \in Callers |-> Pending]
    /\ delays = [c \in Callers |-> <<>>]
    /\ nodes = EmptyDict
    /\ search_results = EmptyDict
    /\ files = {}
    /\ errors = 0
    /\ MergeIdle

SpecServer == InitServer /\ [][NextPaginate]_vars

\* C12: a page that holds a single object under the collection key adds
\* exactly that object to the result, after the items of the pages before
\* it, and is the last page requested.
C12_SingleObjectIsOneItem ==
    \A c \in PaginatedCallers :
        returned[c].tag = "json_object" =>
            /\ pc[c] = "done"
            /\ ret[c].tag = "list"
            /\ Len(ret[c].items) = offset[c] + 1
            /\ ret[c].items[offset[c] + 1] = returned[c].items
            /\ SubSeq(ret[c].items, 1, offset[c]) = SubSeq(Collection(c.kind), 1, offset[c])
            /\ Len(calls[c]) = (offset[c] \div limit) + 1

\* C12 witness: after one full page the second page came as a single object.
C12_ObjectAfterFullPage ==
    \E c \in PaginatedCallers :
        /\ returned[c].tag = "json_object"
        /\ pc[c] = "done"
        /\ Len(ret[c].items) = limit + 1

\* C19: every page request carries limit 1000 and an offset equal to the
\* number of items accumulated so far, whatever the sizes of the pages the
\* server returned.
C19_OffsetIsRunningTotal ==
    \A c \in PaginatedCallers :
        pc[c] \in {"acquire", "request", "sleep"} =>
            LET p == calls[c][Len(calls[c])]
            IN  /\ p.limit = limit
                /\ p.offset = Len(all_data[c])

-----------------------------------------------------------------------------
(* Properties of the collector run *)

InCall(c) == pc[c] \in {"request", "sleep"}

\* C1: at most MAX_CONCURRENT_REQUESTS make_request calls, over all call
\* sites together, have issued a request and not yet returned.
C1_InFlightAtMostCapacity ==
    Cardinality({c \in Callers : InCall(c)}) <= MAX_CONCURRENT_REQUESTS

\* C1 witness: the limiter is full while another call is queued behind it.
C1_FullWithQueue ==
    /\ Cardinality({c \in Callers : pc[c] = "request"}) = MAX_CONCURRENT_REQUESTS
    /\ \E c \in Callers : pc[c] = "acquire"

\* C2: one make_request call issues at most MAX_RETRIES attempts; only its
\* last attempt can have succeeded, and then the call has returned that
\* attempt's payload; it returns None exactly after MAX_RETRIES failed attempts.
C2_AtMostMaxRetriesAttempts ==
    \A c \in Callers :
        LET o == outcomes[c]
            n == Len(o)
        IN  /\ n <= MAX_RETRIES
            /\ \A i \in 1..(n - 1) : o[i] = "fail"
            /\ returned[c].tag = "None" => n = MAX_RETRIES /\ o[n] = "fail"
            /\ (n = MAX_RETRIES /\ o[n] = "fail") => returned[c].tag = "None" /\ ~InCall(c)
            /\ (n > 0 /\ o[n] = "ok") => returned[c].tag = "json" /\ ~InCall(c)
            /\ returned[c].tag = "json" => o[n] = "ok"

\* C2 witness: one call has succeeded on its third attempt and another has
\* returned None after three failed attempts.
C2_ThirdAttemptAndExhausted ==
    \E c, d \in Callers :
        /\ outcomes[c] = <<"fail", "fail", "ok">> /\ returned[c].tag = "json"
        /\ outcomes[d] = <<"fail", "fail", "fail">> /\ returned[d].tag = "None"

\* C4: a top-level fetch whose request ended in a Transport Failure returns a
\* list (empty when the first page failed) and raises nothing, and main is not
\* ended by an exception of a top-level fetch.
C4_FailedFetchYieldsEmpty ==
    /\ \A c \in TopCallers :
          (pc[c] = "done" /\ returned[c].tag = "None") =>
              /\ ret[c].tag = "list"
              /\ Len(calls[c]) = 1 => ret[c].items = <<>>
    /\ mainpc = "crashed" => \A c \in TopCallers : ~IsRaised(ret[c])

C9_NodeWaveAfterBarrier ==
    LET nc == calls[NodesCaller]
    IN  /\ nc # <<>> => \A c \in TopCallers : pc[c] = "done"
        /\ Len(nc) <= Len(clusters)
        /\ \A i \in 1..Len(nc) : nc[i].cluster_id = clusters[i]
        /\ (mainpc \in {"searches", "done"} \/ files # {}) => Len(nc) = Len(clusters)

\* C9 witness: the node request for the second cluster is in flight.
C9_SecondNodeRequest ==
    /\ Len(calls[NodesCaller]) = 2
    /\ pc[NodesCaller] = "request"

\* C10: the node request for one cluster does not wait for the node request
\* of the previous cluster to finish: while a node request is in flight and
\* the limiter has a free slot, no fetched cluster is left without its node
\* request made.
C10_NodeRequestsDoNotWait ==
    ~ /\ InCall(NodesCaller)
      /\ sem > 0
      /\ Len(calls[NodesCaller]) < Len(clusters)

\* C11: when the base URL or the credential is missing, main ends without a
\* session: no make_request call is made, no request is issued, no slot is
\* taken and no file is written; the error is logged once, and after that
\* nothing more happens.
C11_ConfigErrorStopsBeforeNetwork ==
    ~(config.base_url /\ config.api_token) =>
        /\ mainpc \in {"start", "done"}
        /\ \A c \in Callers : pc[c] = "idle" /\ calls[c] = <<>> /\ outcomes[c] = <<>>
        /\ sem = MAX_CONCURRENT_REQUESTS
        /\ files = {}
        /\ errors = (IF mainpc = "done" THEN 1 ELSE 0)
        /\ mainpc = "done" => ~ENABLED Next

\* C11 witness: main has ended on a configuration with a base URL but no token.
C11_TokenMissingReported ==
    /\ config.base_url /\ ~config.api_token
    /\ mainpc = "done"
    /\ errors = 1

\* C14: a node request that used up its retries does not end the run: with
\* the failure value stored for a cluster, main goes through the remaining
\* node requests, the searches, the saving and the summary without crashing.
C14_NodeFailureTolerated ==
    (\E k \in DOMAIN nodes : nodes[k].tag = "None") => mainpc # "crashed"

\* C15: every request of a top-level fetch, the namespaces fetch included,
\* is a page request: the i-th request of the fetch carries the limit 1000
\* and the offset (i - 1) * 1000.
C15_EveryTopLevelFetchPaginated ==
    \A c \in TopCallers :
        \A i \in 1..Len(calls[c]) :
            /\ DOMAIN calls[c][i] = {"limit", "offset"}
            /\ calls[c][i] = PageParams((i - 1) * limit)

\* C17: the slots taken are between 0 and the capacity and are as many as
\* the calls between their acquire and their return, so none is taken once
\* every call has returned; a queued call always has a free slot or a call
\* in progress that will release one; and no call that was queued or in
\* progress is dropped before it has acquired its slot and returned.
C17_SlotLifecycle ==
    /\ sem \in 0..MAX_CONCURRENT_REQUESTS
    /\ MAX_CONCURRENT_REQUESTS - sem = Cardinality({c \in Callers : InCall(c)})
    /\ (\A c \in Callers : pc[c] \notin {"acquire", "request", "sleep"}) =>
           sem = MAX_CONCURRENT_REQUESTS
    /\ (\E c \in Callers : pc[c] = "acquire") =>
           (sem > 0 \/ \E d \in Callers : InCall(d))
    /\ \A c \in Callers : pc[c] # "cancelled"

\* C18: the sleeps of one make_request call are RETRY_DELAY * 2^a after the
\* failed attempt a, for a = 0 .. MAX_RETRIES - 2, that is 1 then 2, strictly
\* increasing; a call sleeps only right after a failed attempt that is not
\* the last, never after a success or after the last failure.
C18_BackoffSchedule ==
    \A c \in Callers :
        LET d == delays[c]
            o == outcomes[c]
            failed == Cardinality({i \in 1..Len(o) : o[i] = "fail"})
        IN  /\ Len(d) = Min(failed, MAX_RETRIES - 1)
            /\ \A i \in 1..Len(d) : d[i] = RETRY_DELAY * (2 ^ (i - 1))
            /\ d = SubSeq(<<1, 2>>, 1, Len(d))
            /\ \A i \in 1..(Len(d) - 1) : d[i] < d[i + 1]
            /\ pc[c] = "sleep" =>
                  /\ Len(d) = Len(o)
                  /\ o[Len(o)] = "fail"
                  /\ Len(o) < MAX_RETRIES

\* C18 witness: a call has slept 1 and then 2 and returned None from its
\* third failed attempt without a third sleep.
C18_TwoSleepsThenGivenUp ==
    \E c \in Callers :
        /\ delays[c] = <<1, 2>>
        /\ outcomes[c] = <<"fail", "fail", "fail">>
        /\ returned[c].tag = "None"
        /\ pc[c] # "sleep"

\* C20: a call in backoff still holds its slot: the free slots are the
\* capacity less the calls with a request in flight or asleep, and while as
\* many calls as the capacity are asleep no queued call can acquire.
C20_SlotKeptThroughBackoff ==
    /\ sem = MAX_CONCURRENT_REQUESTS
               - Cardinality({c \in Callers : pc[c] = "request"})
               - Cardinality({c \in Callers : pc[c] = "sleep"})
    /\ Cardinality({c \in Callers : pc[c] = "sleep"}) = MAX_CONCURRENT_REQUESTS =>
           \A c \in Callers : ~ENABLED Acquire(c)

\* C20 witness: as many calls as the capacity are asleep and another is queued.
C20_AllSlotsAsleepWithQueue ==
    /\ Cardinality({c \in Callers : pc[c] = "sleep"}) = MAX_CONCURRENT_REQUESTS
    /\ \E c \in Callers : pc[c] = "acquire"

-----------------------------------------------------------------------------
(* The merge script run on the documents of a collector run *)

\* (clusterId, namespace) pairs the records refer to
Locations == {<<"c1", "a">>, <<"c1", "b">>, <<"c2", "a">>}

Instance(node, name) ==
    [containerName |-> name,
     instanceId |-> [node |-> node, id |-> name, containerRuntime |-> "cri-o"]]

LiveInstanceLists == {<<>>, <<Instance("n1", "x"), Instance("n2", "y")>>}

Pod(i, loc, dep, live) ==
    [id |-> i, name |-> i, clusterId |-> loc[1], namespace |-> loc[2],
     deploymentId |-> dep, liveInstances |-> live]

\* pods.json: up to MaxPods records with ids 1, 2, ...; deploymentId is
\* missing (None), empty, or names deployment d1.
PodsDocuments ==
    UNION {{[i \in 1..n |-> Pod(i, f[i][1], f[i][2], f[i][3])] :
               f \in [1..n -> Locations \X {Null, "", "d1"} \X LiveInstanceLists]} :
           n \in 0..MaxPods}

DeploymentsDocuments ==
    {<<>>} \cup
    {<<[id |-> "d1", clusterId |-> loc[1], namespace |-> loc[2], name |-> "web",
        created |-> "t0"]>> : loc \in {<<"c1", "a">>, <<"c1", "b">>}}

ClustersDocuments ==
    {<<>>, <<[id |-> "c1", name |-> "prod", type |-> "OPENSHIFT", labels |-> EmptyDict]>>}

NamespacesDocuments ==
    {<<>>, <<[metadata |-> [id |-> "ns-a", clusterId |-> "c1", name |-> "a",
                            labels |-> EmptyDict, annotations |-> EmptyDict]]>>}

\* nodes.json: main dumps to it what get_nodes returned for each cluster, a
\* JSON object or null.
NodesDocuments ==
    {EmptyDict,
     "c1" :> Json(<<[id |-> "node1", name |-> "n1"]>>),
     "c1" :> PyNone}

InitMerge ==
    /\ config = [base_url |-> TRUE, api_token |-> TRUE]
    /\ total = [k \in TopLevel |-> 0]
    /\ server = Conforming
    /\ mainpc = "done"
    /\ Idle
    /\ clusters_data \in ClustersDocuments
    /\ nodes_data \in NodesDocuments
    /\ namespaces_data \in NamespacesDocuments
    /\ deployments_data \in DeploymentsDocuments
    /\ pods_data \in PodsDocuments
    /\ master_data = EmptyDict
    /\ stats = NoStats
    /\ mpc = "loaded"

NextMerge ==
    \/ CombineKubernetesData
    \/ PrintStatistics

SpecMerge == InitMerge /\ [][NextMerge]_vars

\* The pods lists of the tree, as the set of their positions.
DeploymentSlots(md) ==
    UNION {UNION {UNION {{<<c, n, d, i>> :
                            i \in 1..Len(md[c].namespaces[n].deployments[d].pods)} :
                         d \in DOMAIN md[c].namespaces[n].deployments} :
                  n \in DOMAIN md[c].namespaces} :
           c \in DOMAIN md}

StandaloneSlots(md) ==
    UNION {UNION {{<<c, n, i>> : i \in 1..Len(md[c].namespaces[n].standalone_pods)} :
                  n \in DOMAIN md[c].namespaces} :
           c \in DOMAIN md}

UnderDeployment(md, id) ==
    {s \in DeploymentSlots(md) :
        md[s[1]].namespaces[s[2]].deployments[s[3]].pods[s[4]].id = id}

Standalone(md, id) ==
    {s \in StandaloneSlots(md) : md[s[1]].namespaces[s[2]].standalone_pods[s[3]].id = id}

\* C5: every pod record of pods.json is in the merged tree exactly once, in a
\* deployment's pods list or in a standalone_pods list, the tree holds no
\* other pod, and the total_pods statistic equals the number of pod records.
C5_EachPodExactlyOnce ==
    /\ mpc \in {"combined", "done"} =>
          /\ \A i \in 1..Len(pods_data) :
                Cardinality(UnderDeployment(master_data, pods_data[i].id))
                  + Cardinality(Standalone(master_data, pods_data[i].id)) = 1
          /\ Cardinality(DeploymentSlots(master_data))
               + Cardinality(StandaloneSlots(master_data)) = Len(pods_data)
    /\ mpc = "done" => stats.total_pods = Len(pods_data)

\* C5 witness: two pods of one namespace, both without a deployment, merged.
C5_TwoStandalonePods ==
    /\ mpc = "done"
    /\ Len(pods_data) >= 2
    /\ pods_data[1].deploymentId = Null /\ pods_data[2].deploymentId = Null
    /\ pods_data[1].clusterId = pods_data[2].clusterId
    /\ pods_data[1].namespace = pods_data[2].namespace

\* A deployments.json record with this id.
HasRecord(id) == \E j \in 1..Len(deployments_data) : deployments_data[j].id = id

ReflectsInstances(p, pod) ==
    LET live == pod.liveInstances
    IN  /\ Len(p.containers) = Len(live)
        /\ \A i \in 1..Len(live) :
              p.containers[i] = [name |-> live[i].containerName,
                                 id |-> live[i].instanceId.id,
                                 runtime |-> live[i].instanceId.containerRuntime]
        /\ live # <<>> => p.node = live[Len(live)].instanceId.node
        /\ live = <<>> => p.node = Null /\ p.containers = <<>>

\* C16: every pod of the merged tree has one container per LiveInstance of
\* its pods.json record, in the record's order, and the node of the record's
\* last LiveInstance; with no LiveInstance its node is null and its
\* containers list is empty.
C16_ContainersAndLastNode ==
    mpc \in {"combined", "done"} =>
        /\ \A s \in DeploymentSlots(master_data) :
              LET p == master_data[s[1]].namespaces[s[2]].deployments[s[3]].pods[s[4]]
              IN  \E i \in 1..Len(pods_data) :
                     pods_data[i].id = p.id /\ ReflectsInstances(p, pods_data[i])
        /\ \A s \in StandaloneSlots(master_data) :
              LET p == master_data[s[1]].namespaces[s[2]].standalone_pods[s[3]]
              IN  \E i \in 1..Len(pods_data) :
                     pods_data[i].id = p.id /\ ReflectsInstances(p, pods_data[i])

\* C16 witness: a pod with two LiveInstances on different nodes and a pod
\* with none have been merged.
C16_TwoInstancesAndNone ==
    /\ mpc = "combined"
    /\ \E i, j \in 1..Len(pods_data) :
          /\ Len(pods_data[i].liveInstances) = 2
          /\ pods_data[i].liveInstances[1].instanceId.node
                # pods_data[i].liveInstances[2].instanceId.node
          /\ pods_data[j].liveInstances = <<>>

-----------------------------------------------------------------------------
(* The merge script run on documents with several records per collection *)

ClusterRecord(id) == [id |-> id, name |-> id, type |-> "OPENSHIFT", labels |-> EmptyDict]

NamespaceRecord(cid, name) ==
    [metadata |-> [id |-> name, clusterId |-> cid, name |-> name,
                   labels |-> EmptyDict, annotations |-> EmptyDict]]

DeploymentRecord(id, cid, ns) ==
    [id |-> id, clusterId |-> cid, namespace |-> ns, name |-> id, created |-> cid]

\* pods.json with pods that name d1, d2 or no deployment
OrderPodsDocuments ==
    UNION {{[i \in 1..n |-> Pod(i, f[i][1], f[i][2], <<Instance("n1", "x")>>)] :
               f \in [1..n -> Locations \X {Null, "d1", "d2"}]} :
           n \in 0..MaxPods}

InitOrder ==
    /\ config = [base_url |-> TRUE, api_token |-> TRUE]
    /\ total = [k \in TopLevel |-> 0]
    /\ server = Conforming
    /\ mainpc = "done"
    /\ Idle
    /\ clusters_data = <<ClusterRecord("c1"), ClusterRecord("c2")>>
    /\ nodes_data = ("c1" :> Json(<<[id |-> "node1", name |-> "n1"]>>))
    /\ namespaces_data = <<NamespaceRecord("c1", "a"), NamespaceRecord("c1", "b")>>
    /\ deployments_data = <<DeploymentRecord("d1", "c1", "a"), DeploymentRecord("d2", "c1", "a"),
                            DeploymentRecord("d1", "c1", "b")>>
    /\ pods_data \in OrderPodsDocuments
    /\ master_data = EmptyDict
    /\ stats = NoStats
    /\ mpc = "loaded"

SpecOrder == InitOrder /\ [][NextMerge]_vars

\* The sequences that hold the records of s in some order.
Orderings(s) == {[i \in 1..Len(s) |-> s[p[i]]] : p \in Permutations(1..Len(s))}

AsSet(s) == {s[i] : i \in 1..Len(s)}

\* The merged tree with every pods list read as the set of its pods.
Unordered(md) ==
    [c \in DOMAIN md |->
        [info |-> md[c].info,
         nodes |-> md[c].nodes,
         namespaces |->
            [n \in DOMAIN md[c].namespaces |->
                LET e == md[c].namespaces[n]
                IN  [meta |-> e.meta,
                     deployments |->
                        [d \in DOMAIN e.deployments |->
                            [info |-> e.deployments[d].info,
                             pods |-> AsSet(e.deployments[d].pods)]],
                     standalone |-> AsSet(StandalonePods(e))]]]]

\* C13: the records of clusters, namespaces, deployments and pods taken in
\* any other order merge into the same tree up to the order inside the pods
\* lists; every pod is under the cluster, namespace and deployment its own
\* fields name, and every deployment record's info is under the cluster,
\* namespace and id its own fields name.
C13_MergeIsOrderIndependent ==
    mpc = "combined" =>
        /\ \A cs \in Orderings(clusters_data), nss \in Orderings(namespaces_data),
              ds \in Orderings(deployments_data), ps \in Orderings(pods_data) :
                Unordered(Combine(cs, nodes_data, nss, ds, ps)) = Unordered(master_data)
        /\ \A i \in 1..Len(pods_data) :
              LET pod == pods_data[i]
              IN  /\ \A s \in UnderDeployment(master_data, pod.id) :
                        <<s[1], s[2], s[3]>> = <<pod.clusterId, pod.namespace, pod.deploymentId>>
                  /\ \A s \in Standalone(master_data, pod.id) :
                        <<s[1], s[2]>> = <<pod.clusterId, pod.namespace>>
        /\ \A j \in 1..Len(deployments_data) :
              LET d == deployments_data[j]
              IN  master_data[d.clusterId].namespaces[d.namespace].deployments[d.id].info
                     = [name |-> d.name, created |-> d.created]

\* C13 witness: two pods of deployment d1 of one namespace have been merged
\* next to the records of three deployments.
C13_TwoPodsOfOneDeployment ==
    /\ mpc = "combined"
    /\ Len(deployments_data) = 3
    /\ Len(pods_data) >= 2
    /\ pods_data[1].deploymentId = "d1" /\ pods_data[2].deploymentId = "d1"
    /\ pods_data[1].clusterId = pods_data[2].clusterId
    /\ pods_data[1].namespace = pods_data[2].namespace

====
